---- MODULE Spec2Model ----
(***************************************************************************)
(* Model of src/fo.py, a Streamlit options blotter.                        *)
(*                                                                         *)
(* The program state is st.session_state.trades, a list of dicts made by   *)
(* asdict(Trade).  Three handlers change it: the "Add Trade" button, the   *)
(* "Close Selected" button (update_trade_exit) and the "Apply LTP &        *)
(* Auto-Close" button (auto_close_if_hit).  Money amounts are integers in  *)
(* paise (0.01 rupee), so the "%.2f" formatting of the source is exact.    *)
(* Text is a sequence of one-character strings, so that strip() and        *)
(* upper() are computed and not assumed.                                   *)
(***************************************************************************)
EXTENDS Integers, Sequences, FiniteSets, TLC

(***************************************************************************)
(* Bounds of the model.                                                    *)
(***************************************************************************)
MaxTrades == 2      \* ledger length explored
MaxId == 2          \* number of distinct values of str(uuid.uuid4())[:8]
MaxPrice == 1       \* premiums (entry, target, stop, LTP, manual close) in 0..MaxPrice
MaxLots == 2        \* lots in 1..MaxLots

\* init_state: st.session_state.default_lot, the prefilled value of "Lot Size"
default_lot == 140

Ids == 1..MaxId
Prices == 0..MaxPrice
LotSizes == { default_lot }
LotCounts == 1..MaxLots
OptionTypes == {"CE", "PE"}
\* st.text_input values as typed: text before symbol.strip().upper()
RawSymbols == { <<" ", "n">>, <<" ">> }
RawExpiries == { <<"w", "1", " ">> }
\* strike in paise: 14000.50
Strikes == { 1400050 }
\* datetime.now().strftime(...)
Times == { "2025-08-14 09:15:00" }

(***************************************************************************)
(* str.strip() and str.upper() on sequences of characters.                 *)
(***************************************************************************)
IsSpace(c) == c = " "

RECURSIVE lstrip(_)
lstrip(s) ==
    IF s # <<>> /\ IsSpace(Head(s)) THEN lstrip(Tail(s)) ELSE s

RECURSIVE rstrip(_)
rstrip(s) ==
    IF s # <<>> /\ IsSpace(s[Len(s)]) THEN rstrip(SubSeq(s, 1, Len(s) - 1)) ELSE s

strip(s) == rstrip(lstrip(s))

upper_char(c) ==
    CASE c = "n" -> "N"
      [] c = "w" -> "W"
      [] OTHER -> c

upper(s) == [i \in 1..Len(s) |-> upper_char(s[i])]

\* int(x) of a non-negative amount held in paise: whole rupees
int(x) == x \div 100

Symbols == { upper(strip(r)) : r \in RawSymbols }

\* ltp_map: symbol -> LTP, for any set of symbols
LtpMaps == UNION { [S -> Prices] : S \in SUBSET Symbols }

VARIABLES
    trades,     \* st.session_state.trades
    toasts,     \* the st.toast messages of the handler that ran last
    last,       \* the handler that ran last
    raised,     \* the exception that handler let escape, "None" when it returned
    calls       \* the invocations of update_trade_exit under way, statement by
                \* statement; none while the handlers run one at a time

vars == <<trades, toasts, last, raised, calls>>

(***************************************************************************)
(* The Trade dataclass, as the dict asdict() makes of it.                  *)
(***************************************************************************)
Trade(id, ts, symbol, option_type, strike, expiry, lot_size, lots, entry, target, stop, auto_close, status, exit_price, pnl) ==
    [id |-> id, ts |-> ts, symbol |-> symbol, option_type |-> option_type,
     strike |-> strike, expiry |-> expiry, lot_size |-> lot_size, lots |-> lots,
     entry |-> entry, target |-> target, stop |-> stop, auto_close |-> auto_close,
     status |-> status, exit_price |-> exit_price, pnl |-> pnl]

\* a slip in lines 43-44: pnl declared before exit_price
asdict_keys_swapped ==
    <<"id", "ts", "symbol", "option_type", "strike", "expiry", "lot_size", "lots",
      "entry", "target", "stop", "auto_close", "status", "pnl", "exit_price">>

\* lines 30-44: the keys of asdict(trade), in the order the fields are declared
asdict_keys ==
    <<"id", "ts", "symbol", "option_type", "strike", "expiry", "lot_size", "lots",
      "entry", "target", "stop", "auto_close", "status", "exit_price", "pnl">>

\* line 61: the columns given to the empty DataFrame
empty_columns ==
    <<"id", "ts", "symbol", "option_type", "strike", "expiry", "lot_size", "lots",
      "entry", "target", "stop", "auto_close", "status", "exit_price", "pnl">>

\* pd.DataFrame(list of dicts): the columns are the keys of the dicts, a row
\* holds the values of one dict in the order of the columns
DataFrame(columns, dicts) ==
    [columns |-> columns,
     rows |-> [i \in DOMAIN dicts |->
                 [k \in DOMAIN columns |-> dicts[i][columns[k]]]]]

\* lines 58-63
to_df(trs) ==
    IF trs = <<>>
    THEN DataFrame(empty_columns, <<>>)
    ELSE DataFrame(asdict_keys, trs)

\* a session: the ledger and the toasts shown so far in this run of the script
Session(trs, tst) == [trades |-> trs, toasts |-> tst]

\* a slip in line 67: insert(0, ...) in place of append
save_trade_first(trs, trade) == <<trade>> \o trs

\* line 67
save_trade(trs, trade) == Append(trs, trade)

(***************************************************************************)
(* update_trade_exit                                                       *)
(***************************************************************************)
\* a slip in line 72: the status is not looked at
matches_any_status(t, trade_id) == t.id = trade_id

\* line 72: the record the loop stops at
matches(t, trade_id) == t.id = trade_id /\ t.status = "OPEN"

\* line 74: computed and never used
sign(t) == IF t.option_type = "CE" THEN 1 ELSE -1

\* a slip in line 76: the sign of line 74 is applied
pnl_signed(t, exit_price) == sign(t) * (exit_price - t.entry) * t.lot_size * t.lots

\* line 76
pnl_of(t, exit_price) == (exit_price - t.entry) * t.lot_size * t.lots

\* lines 77-79
closed(t, exit_price) ==
    [t EXCEPT !.status = "CLOSED",
              !.exit_price = exit_price,
              !.pnl = pnl_of(t, exit_price)]

\* a slip in line 80: the toast shows the pnl of line 73's comment, per lot
toast_of_per_lot(t, exit_price) ==
    [symbol |-> t.symbol, strike |-> int(t.strike), option_type |-> t.option_type,
     exit_price |-> exit_price, pnl |-> (exit_price - t.entry) * t.lot_size]

\* line 80
toast_of(t, exit_price) ==
    [symbol |-> t.symbol, strike |-> int(t.strike), option_type |-> t.option_type,
     exit_price |-> exit_price, pnl |-> pnl_of(t, exit_price)]

Min(S) == CHOOSE x \in S : \A y \in S : x <= y

\* the for loop with its break: the first matching record is closed
update_trade_exit(ss, trade_id, exit_price) ==
    LET hit == { i \in DOMAIN ss.trades : matches(ss.trades[i], trade_id) }
    IN  IF hit = {}
        THEN ss
        ELSE LET i == Min(hit)
                 t == ss.trades[i]
             IN  Session([ss.trades EXCEPT ![i] = closed(t, exit_price)],
                         Append(ss.toasts, toast_of(t, exit_price)))

(***************************************************************************)
(* auto_close_if_hit                                                       *)
(***************************************************************************)
\* a slip in line 97: the PE branch follows the module docstring (LTP <= target)
hit_target_as_docstring(t, ltp) ==
    IF t.option_type = "CE" THEN ltp >= t.target ELSE ltp <= t.target

\* lines 93-98: the two branches are written out as in the source
hit_target(t, ltp) ==
    IF t.option_type = "CE" THEN ltp >= t.target ELSE ltp >= t.target

hit_stop(t, ltp) ==
    IF t.option_type = "CE"
    THEN (t.stop > 0) /\ (ltp <= t.stop)
    ELSE (t.stop > 0) /\ (ltp <= t.stop)

\* a slip in lines 101-103: the scan writes the record it examines itself
scan_step_in_place(ss, ltp_map, i) ==
    LET t == ss.trades[i]
        write(px) == Session([ss.trades EXCEPT ![i] = closed(t, px)],
                             Append(ss.toasts, toast_of(t, px)))
    IN  IF t.status # "OPEN" \/ t.symbol \notin DOMAIN ltp_map \/ ~t.auto_close THEN ss
        ELSE IF hit_target(t, ltp_map[t.symbol]) THEN write(t.target)
        ELSE IF hit_stop(t, ltp_map[t.symbol]) THEN write(t.stop)
        ELSE ss

\* lines 87-103: the body of the loop for the record at index i
scan_step(ss, ltp_map, i) ==
    LET t == ss.trades[i]
    IN  IF t.status # "OPEN" THEN ss
        ELSE IF t.symbol \notin DOMAIN ltp_map THEN ss
        ELSE LET ltp == ltp_map[t.symbol]
             IN  IF t.auto_close
                 THEN IF hit_target(t, ltp)
                      THEN update_trade_exit(ss, t.id, t.target)
                      ELSE IF hit_stop(t, ltp)
                           THEN update_trade_exit(ss, t.id, t.stop)
                           ELSE ss
                 ELSE ss

\* line 86: for t in st.session_state.trades, from index i on
RECURSIVE scan_from(_, _, _)
scan_from(ss, ltp_map, i) ==
    IF i > Len(ss.trades) THEN ss
    ELSE scan_from(scan_step(ss, ltp_map, i), ltp_map, i + 1)

auto_close_if_hit(ss, ltp_map) == scan_from(ss, ltp_map, 1)

(***************************************************************************)
(* The state machine: one action per button handler.                       *)
(***************************************************************************)
\* init_state
Init ==
    /\ trades = <<>>
    /\ toasts = <<>>
    /\ last = [op |-> "init"]
    /\ raised = "None"
    /\ calls = <<>>

\* lines 155-174
AddTrade ==
    /\ Len(trades) < MaxTrades
    /\ \E id \in Ids, ts \in Times, symbol \in RawSymbols, option_type \in OptionTypes,
          strike \in Strikes, expiry \in RawExpiries, lot_size \in LotSizes,
          lots \in LotCounts, entry \in Prices, target \in Prices, stop \in Prices,
          auto_close \in BOOLEAN :
            trades' = save_trade(trades,
                        Trade(id, ts, upper(strip(symbol)), option_type, strike,
                              strip(expiry), lot_size, lots, entry, target, stop,
                              auto_close, "OPEN", 0, 0))
    /\ toasts' = <<>>
    /\ last' = [op |-> "add"]
    /\ raised' = "None"
    /\ UNCHANGED calls

\* lines 192-198: pick is one of the ids of the blotter, close_px any premium
CloseSelected ==
    /\ trades # <<>>
    /\ \E pick \in { trades[i].id : i \in DOMAIN trades }, close_px \in Prices :
         LET ss == update_trade_exit(Session(trades, <<>>), pick, close_px)
         IN  /\ trades' = ss.trades
             /\ toasts' = ss.toasts
             /\ last' = [op |-> "close"]
             /\ raised' = "None"
             /\ UNCHANGED calls

\* lines 123-124
ApplyLtp ==
    \E ltp_map \in LtpMaps :
        LET ss == auto_close_if_hit(Session(trades, <<>>), ltp_map)
        IN  /\ trades' = ss.trades
            /\ toasts' = ss.toasts
            /\ last' = [op |-> "scan"]
            /\ raised' = "None"
            /\ UNCHANGED calls

\* lines 184-205: the button exists when the blotter is not empty; it writes
\* to_df() to a file and changes nothing of the session
ExportCsv ==
    /\ to_df(trades).rows # <<>>
    /\ last' = [op |-> "export"]
    /\ toasts' = <<>>
    /\ raised' = "None"
    /\ UNCHANGED <<trades, calls>>

Next == AddTrade \/ CloseSelected \/ ApplyLtp \/ ExportCsv

Spec == Init /\ [][Next]_vars

(***************************************************************************)
(* Two invocations of update_trade_exit on one ledger, interleaved         *)
(* statement by statement: a manual close (Close Selected, line 198) and   *)
(* the close of a trigger (auto_close_if_hit, lines 101 and 103).  The     *)
(* source takes no lock and has no other guard than the test of line 72.   *)
(***************************************************************************)
Callers == 1..2

\* an invocation at the head of its for loop
Call(trade_id, exit_price) ==
    [pc |-> "l72", trade_id |-> trade_id, exit_price |-> exit_price,
     i |-> 1, pnl |-> 0, wrote |-> FALSE]

\* the ledger holds one OPEN trade, made as Add Trade makes it; caller 1 closes
\* it by hand at any premium, caller 2 closes it at its target or its stop
RaceInit ==
    /\ \E id \in Ids, ts \in Times, symbol \in RawSymbols, option_type \in OptionTypes,
          strike \in Strikes, expiry \in RawExpiries, lot_size \in LotSizes,
          lots \in LotCounts, entry \in Prices, target \in Prices, stop \in Prices,
          close_px \in Prices, on_target \in BOOLEAN :
            /\ trades = save_trade(<<>>,
                          Trade(id, ts, upper(strip(symbol)), option_type, strike,
                                strip(expiry), lot_size, lots, entry, target, stop,
                                TRUE, "OPEN", 0, 0))
            /\ calls = [c \in Callers |->
                          IF c = 1 THEN Call(id, close_px)
                          ELSE Call(id, IF on_target THEN target ELSE stop)]
    /\ toasts = <<>>
    /\ last = [op |-> "race"]
    /\ raised = "None"

\* line 71, the loop is over: the invocation returns
RaceReturn(c) ==
    /\ calls[c].pc = "l72"
    /\ calls[c].i > Len(trades)
    /\ calls' = [calls EXCEPT ![c].pc = "done"]
    /\ UNCHANGED <<trades, toasts, last, raised>>

\* line 72, the test fails: next record
RaceSkip(c) ==
    /\ calls[c].pc = "l72"
    /\ calls[c].i <= Len(trades)
    /\ ~matches(trades[calls[c].i], calls[c].trade_id)
    /\ calls' = [calls EXCEPT ![c].i = @ + 1]
    /\ UNCHANGED <<trades, toasts, last, raised>>

\* line 72, the test holds
RaceMatch(c) ==
    /\ calls[c].pc = "l72"
    /\ calls[c].i <= Len(trades)
    /\ matches(trades[calls[c].i], calls[c].trade_id)
    /\ calls' = [calls EXCEPT ![c].pc = "l76"]
    /\ UNCHANGED <<trades, toasts, last, raised>>

\* line 76
RacePnl(c) ==
    /\ calls[c].pc = "l76"
    /\ calls' = [calls EXCEPT ![c].pnl = pnl_of(trades[calls[c].i], calls[c].exit_price),
                              ![c].pc = "l77"]
    /\ UNCHANGED <<trades, toasts, last, raised>>

\* line 77
RaceWriteStatus(c) ==
    /\ calls[c].pc = "l77"
    /\ trades' = [trades EXCEPT ![calls[c].i].status = "CLOSED"]
    /\ calls' = [calls EXCEPT ![c].pc = "l78", ![c].wrote = TRUE]
    /\ UNCHANGED <<toasts, last, raised>>

\* line 78
RaceWriteExit(c) ==
    /\ calls[c].pc = "l78"
    /\ trades' = [trades EXCEPT ![calls[c].i].exit_price = calls[c].exit_price]
    /\ calls' = [calls EXCEPT ![c].pc = "l79"]
    /\ UNCHANGED <<toasts, last, raised>>

\* line 79
RaceWritePnl(c) ==
    /\ calls[c].pc = "l79"
    /\ trades' = [trades EXCEPT ![calls[c].i].pnl = calls[c].pnl]
    /\ calls' = [calls EXCEPT ![c].pc = "l80"]
    /\ UNCHANGED <<toasts, last, raised>>

\* lines 80-81: the toast, and the break
RaceToast(c) ==
    /\ calls[c].pc = "l80"
    /\ LET t == trades[calls[c].i]
       IN  toasts' = Append(toasts,
                       [symbol |-> t.symbol, strike |-> int(t.strike),
                        option_type |-> t.option_type,
                        exit_price |-> calls[c].exit_price, pnl |-> calls[c].pnl])
    /\ calls' = [calls EXCEPT ![c].pc = "done"]
    /\ UNCHANGED <<trades, last, raised>>

RaceNext ==
    \E c \in Callers :
        \/ RaceReturn(c)
        \/ RaceSkip(c)
        \/ RaceMatch(c)
        \/ RacePnl(c)
        \/ RaceWriteStatus(c)
        \/ RaceWriteExit(c)
        \/ RaceWritePnl(c)
        \/ RaceToast(c)

SpecRace == RaceInit /\ [][RaceNext]_vars

(***************************************************************************)
(* Properties.                                                             *)
(***************************************************************************)
Open(t) == t.status = "OPEN"
Closed(t) == t.status = "CLOSED"

\* the ledger a scan of the current ledger with ltp_map leaves
AfterScan(ltp_map) == auto_close_if_hit(Session(trades, <<>>), ltp_map).trades

\* the ledger a close request on the current ledger leaves
AfterClose(trade_id, exit_price) ==
    update_trade_exit(Session(trades, <<>>), trade_id, exit_price)

\* C1: closure is terminal: a step of any handler (add, manual close, LTP
\* scan) leaves every record that is CLOSED in place with all fields as they
\* were; its status never returns to OPEN, exit_price and pnl stay.
ClosureIsTerminal ==
    [][\A i \in DOMAIN trades :
          Closed(trades[i]) => i \in DOMAIN trades' /\ trades'[i] = trades[i]]_vars

\* C1 witness: a manual close was requested for an id whose records are all
\* CLOSED (it emitted no toast), on a ledger whose records are all CLOSED, one
\* of them with a non-zero pnl.
ClosedRecordCloseRetried ==
    /\ last.op = "close"
    /\ toasts = <<>>
    /\ \E i \in DOMAIN trades :
          /\ Closed(trades[i])
          /\ trades[i].pnl # 0
          /\ \A j \in DOMAIN trades : Closed(trades[j])

DistinctIds ==
    \A i, j \in DOMAIN trades : i # j => trades[i].id # trades[j].id

\* ltp_map has an LTP for the record's symbol
Quoted(t, ltp_map) == t.symbol \in DOMAIN ltp_map

\* C5 as claimed: a step of the LTP scan, whatever its snapshot, leaves every
\* OPEN record whose auto_close is false as it was.
AutoCloseOffNeverScanClosed ==
    [][last'.op = "scan" =>
          \A i \in DOMAIN trades :
              (Open(trades[i]) /\ ~trades[i].auto_close) => trades'[i] = trades[i]]_vars

\* C6 as claimed: an OPEN auto-close record whose LTP meets both the target
\* condition and the stop condition is closed by the scan at its target.
TargetPrecedence ==
    \A ltp_map \in LtpMaps : \A i \in DOMAIN trades :
        LET t == trades[i]
        IN  (/\ Open(t) /\ t.auto_close /\ Quoted(t, ltp_map)
             /\ ltp_map[t.symbol] >= t.target
             /\ t.stop > 0 /\ ltp_map[t.symbol] <= t.stop)
            => /\ Closed(AfterScan(ltp_map)[i])
               /\ AfterScan(ltp_map)[i].exit_price = t.target

\* C7 as claimed: a record the scan moves from OPEN to CLOSED gets its own
\* target as exit_price when its target condition held, and its own stop when
\* only its stop condition held.
ScanExitIsOwnTrigger ==
    \A ltp_map \in LtpMaps : \A i \in DOMAIN trades :
        LET t == trades[i]
            u == AfterScan(ltp_map)[i]
        IN  (Open(t) /\ Closed(u))
            => /\ Quoted(t, ltp_map)
               /\ \/ ltp_map[t.symbol] >= t.target /\ u.exit_price = t.target
                  \/ /\ ~(ltp_map[t.symbol] >= t.target)
                     /\ t.stop > 0 /\ ltp_map[t.symbol] <= t.stop
                     /\ u.exit_price = t.stop

\* the ledger with the option_type of record i changed to the other type
Flipped(trs, i) ==
    [trs EXCEPT ![i].option_type = IF @ = "CE" THEN "PE" ELSE "CE"]

\* what a scan decided for each record: status and exit_price
Decisions(trs) == [k \in DOMAIN trs |-> <<trs[k].status, trs[k].exit_price>>]

OnlyBearer(i) == \A j \in DOMAIN trades : j # i => trades[j].id # trades[i].id

\* C9 as claimed (module docstring): an OPEN auto-close record with an LTP is
\* closed at its target when LTP >= target for a CE and when LTP <= target for
\* a PE.  Stated of the records that share their id with no other, so that
\* what refutes it is the rule of the scan and not a collision of ids.
DocstringTargetRule ==
    \A ltp_map \in LtpMaps : \A i \in DOMAIN trades :
        LET t == trades[i]
        IN  (/\ Open(t) /\ t.auto_close /\ Quoted(t, ltp_map) /\ OnlyBearer(i)
             /\ \/ t.option_type = "CE" /\ ltp_map[t.symbol] >= t.target
                \/ t.option_type = "PE" /\ ltp_map[t.symbol] <= t.target)
            => /\ Closed(AfterScan(ltp_map)[i])
               /\ AfterScan(ltp_map)[i].exit_price = t.target

\* C10 as claimed: an OPEN auto-close record with stop = 0 is left OPEN by a
\* scan whose LTP is below its target, and is closed by a scan only at its
\* target with LTP >= target.
ZeroStopNeverStops ==
    \A ltp_map \in LtpMaps : \A i \in DOMAIN trades :
        LET t == trades[i]
            u == AfterScan(ltp_map)[i]
        IN  (Open(t) /\ t.auto_close /\ t.stop = 0 /\ Quoted(t, ltp_map))
            => /\ ltp_map[t.symbol] < t.target => u = t
               /\ Closed(u) => /\ ltp_map[t.symbol] >= t.target
                               /\ u.exit_price = t.target

(***************************************************************************)
(* The scan properties above fail only where two records bear one id: on   *)
(* every reachable ledger whose ids are distinct they hold.                *)
(***************************************************************************)
AutoCloseOffNeverScanClosedIfDistinctIds ==
    DistinctIds =>
        \A ltp_map \in LtpMaps : \A i \in DOMAIN trades :
            (Open(trades[i]) /\ ~trades[i].auto_close)
            => AfterScan(ltp_map)[i] = trades[i]
TargetPrecedenceIfDistinctIds == DistinctIds => TargetPrecedence
ScanExitIsOwnTriggerIfDistinctIds == DistinctIds => ScanExitIsOwnTrigger
ZeroStopNeverStopsIfDistinctIds == DistinctIds => ZeroStopNeverStops

(***************************************************************************)
(* Frame of the scan, validation of a new trade, shape of the ledger.      *)
(***************************************************************************)
\* C11 as claimed: a scan leaves every OPEN record whose symbol has no LTP in
\* the snapshot as it was, whatever its target, stop and auto_close and
\* whatever the scan does to records of other symbols.
UnquotedLeftAlone ==
    \A ltp_map \in LtpMaps : \A i \in DOMAIN trades :
        (Open(trades[i]) /\ ~Quoted(trades[i], ltp_map))
        => AfterScan(ltp_map)[i] = trades[i]

UnquotedLeftAloneIfDistinctIds == DistinctIds => UnquotedLeftAlone

\* C12 as claimed: a request whose symbol is empty after trimming is refused,
\* so every record of the ledger has a non-empty symbol, lot_size >= 1,
\* lots >= 1 and strike, entry, target and stop >= 0.
RecordsAreValid ==
    \A i \in DOMAIN trades :
        /\ trades[i].symbol # <<>>
        /\ trades[i].lot_size >= 1 /\ trades[i].lots >= 1
        /\ trades[i].strike >= 0 /\ trades[i].entry >= 0
        /\ trades[i].target >= 0 /\ trades[i].stop >= 0

\* the record as Add Trade made it: all but the fields a close writes
Created(t) == [t EXCEPT !.status = "OPEN", !.exit_price = 0, !.pnl = 0]

\* C13: the ledger is append-only: a step of Add Trade keeps the records it
\* found, in their order, and puts one record after them, OPEN with
\* exit_price 0 and pnl 0; a step of any other handler keeps the length of the
\* ledger and, at every position, the record created there.
AppendOnly ==
    [][/\ last'.op = "add" =>
            /\ Len(trades') = Len(trades) + 1
            /\ SubSeq(trades', 1, Len(trades)) = trades
            /\ Open(trades'[Len(trades')])
            /\ trades'[Len(trades')].exit_price = 0
            /\ trades'[Len(trades')].pnl = 0
       /\ last'.op # "add" =>
            /\ Len(trades') = Len(trades)
            /\ \A i \in DOMAIN trades : Created(trades'[i]) = Created(trades[i])]_vars

\* C13 witness: a trade was just added behind a record that was closed before
\* at a price other than that of the new record's target.
AddedBehindClosed ==
    /\ last.op = "add"
    /\ Len(trades) = 2
    /\ Closed(trades[1])
    /\ trades[1].pnl # 0
    /\ trades[2] # [trades[1] EXCEPT !.status = "OPEN", !.exit_price = 0, !.pnl = 0]

(***************************************************************************)
(* The exported table.                                                     *)
(***************************************************************************)
ExportColumns ==
    <<"id", "ts", "symbol", "option_type", "strike", "expiry", "lot_size", "lots",
      "entry", "target", "stop", "auto_close", "status", "exit_price", "pnl">>

\* C16: to_df() has the columns id, ts, symbol, option_type, strike, expiry,
\* lot_size, lots, entry, target, stop, auto_close, status, exit_price, pnl in
\* this order for the empty and the non-empty ledger, and one row per record,
\* in the order of the ledger, holding that record's values.
ExportTableShape ==
    LET df == to_df(trades)
    IN  /\ df.columns = ExportColumns
        /\ Len(df.rows) = Len(trades)
        /\ \A i \in DOMAIN trades : \A k \in DOMAIN ExportColumns :
              df.rows[i][k] = trades[i][ExportColumns[k]]

\* C16 witness: Export CSV has run on a ledger of two different records, the
\* first of them CLOSED with a pnl that is not its exit_price.
ExportedMixedLedger ==
    /\ last.op = "export"
    /\ Len(trades) = 2
    /\ Closed(trades[1]) /\ Open(trades[2])
    /\ trades[1].pnl # trades[1].exit_price
    /\ Created(trades[1]) # Created(trades[2])

(***************************************************************************)
(* The scan as evaluation followed by closes.                              *)
(***************************************************************************)
\* the trigger condition of a record for an LTP
Triggered(t, ltp_map) ==
    /\ Open(t) /\ t.auto_close /\ Quoted(t, ltp_map)
    /\ \/ ltp_map[t.symbol] >= t.target
       \/ t.stop > 0 /\ ltp_map[t.symbol] <= t.stop

\* the trigger price of a triggered record: the target first
TriggerPrice(t, ltp_map) ==
    IF ltp_map[t.symbol] >= t.target THEN t.target ELSE t.stop

\* the triggers of the records 1..n of a ledger, in ledger order: at most one
\* <<id, trigger price>> for each record, computed from trs and ltp_map alone
RECURSIVE Evaluate(_, _, _)
Evaluate(trs, ltp_map, n) ==
    IF n = 0 THEN <<>>
    ELSE LET rest == Evaluate(trs, ltp_map, n - 1)
         IN  IF Triggered(trs[n], ltp_map)
             THEN Append(rest, <<trs[n].id, TriggerPrice(trs[n], ltp_map)>>)
             ELSE rest

\* the triggers fed to update_trade_exit one after the other
RECURSIVE ApplyTriggers(_, _)
ApplyTriggers(ss, triggers) ==
    IF triggers = <<>> THEN ss
    ELSE ApplyTriggers(update_trade_exit(ss, Head(triggers)[1], Head(triggers)[2]),
                       Tail(triggers))

ScanCompleteAndIdempotent ==
    \A ltp_map \in LtpMaps :
        LET after == auto_close_if_hit(Session(trades, <<>>), ltp_map).trades
        IN  /\ \A i \in DOMAIN after : ~Triggered(after[i], ltp_map)
            /\ auto_close_if_hit(Session(after, <<>>), ltp_map).trades = after

ScanCompleteAndIdempotentIfDistinctIds == DistinctIds => ScanCompleteAndIdempotent

\* record u is record t closed: CLOSED, and as created but for status,
\* exit_price and pnl
ClosedFrom(t, u) == Closed(u) /\ Created(u) = Created(t)

\* C18 as claimed: the record a close makes CLOSED is the intended one: a scan
\* closes each record that met its trigger and changes no other record; a
\* manual close of the selected OPEN record closes that record and changes no
\* other; the closed record keeps the fields it was created with.
CloseTouchesIntendedOnly ==
    /\ \A ltp_map \in LtpMaps : \A i \in DOMAIN trades :
          IF Triggered(trades[i], ltp_map)
          THEN ClosedFrom(trades[i], AfterScan(ltp_map)[i])
          ELSE AfterScan(ltp_map)[i] = trades[i]
    /\ \A i \in DOMAIN trades : \A close_px \in Prices :
          Open(trades[i]) =>
              LET after == AfterClose(trades[i].id, close_px).trades
              IN  /\ ClosedFrom(trades[i], after[i])
                  /\ \A j \in DOMAIN trades : j # i => after[j] = trades[j]

CloseTouchesIntendedOnlyIfDistinctIds == DistinctIds => CloseTouchesIntendedOnly

(***************************************************************************)
(* Toasts.                                                                 *)
(***************************************************************************)
\* the records a step closes
NewlyClosed == { i \in DOMAIN trades : Open(trades[i]) /\ Closed(trades'[i]) }

\* the toasts of a step, one to one with the records the step closes, each
\* with the fields shown by Shown(record)
ToastsMatch(Shown(_)) ==
    /\ Len(toasts') = Cardinality(NewlyClosed)
    /\ \E f \in [DOMAIN toasts' -> NewlyClosed] :
          /\ \A a, b \in DOMAIN toasts' : a # b => f[a] # f[b]
          /\ \A a \in DOMAIN toasts' : toasts'[a] = Shown(trades'[f[a]])

\* what the claim has a toast carry
FieldsOf(u) ==
    [symbol |-> u.symbol, strike |-> u.strike, option_type |-> u.option_type,
     exit_price |-> u.exit_price, pnl |-> u.pnl]

\* the same with the strike cut to whole rupees
FieldsWithIntStrike(u) == [FieldsOf(u) EXCEPT !.strike = int(u.strike)]

\* C19 as claimed: the toasts of a step are one to one with the records the
\* step closes, each carrying the record's symbol, strike, option type and
\* the exit_price and pnl stored on it; a step that closes nothing emits none.
ToastsCarryRecord ==
    [][last'.op \in {"close", "scan"} => ToastsMatch(FieldsOf)]_vars

\* C19 as amended: the same, with the strike of the toast being int(strike),
\* the record's strike cut to whole rupees.
ToastsCarryRecordIntStrike ==
    [][/\ last'.op \in {"close", "scan"} => ToastsMatch(FieldsWithIntStrike)
       /\ last'.op \notin {"close", "scan"} => toasts' = <<>> /\ NewlyClosed = {}]_vars

\* C19 witness: a scan has just closed two records, with two toasts that
\* differ, and the strike of the records is not a whole number of rupees.
TwoToastsFractionalStrike ==
    /\ last.op = "scan"
    /\ Len(toasts) = 2
    /\ toasts[1] # toasts[2]
    /\ toasts[1].pnl # 0
    /\ \A i \in DOMAIN trades : Closed(trades[i]) /\ int(trades[i].strike) * 100 # trades[i].strike

====
